---- MODULE Spec2Model ----
(***************************************************************************)
(* A model of weather_visualizer.py: the forecast pipeline of main         *)
(* (resolve city and key, construct WeatherVisualizer, fetch_data,         *)
(* process_data, create_dashboard) and of the three methods called on      *)
(* their own.                                                              *)
(*                                                                         *)
(* Strings the code inspects character by character (the city, a weather   *)
(* description, the prompt's input) are sequences of one-character         *)
(* strings; a character outside ASCII is written by its code point         *)
(* ("U+00E3" is a-tilde).  Strings the code only tests for emptiness (the  *)
(* API key) are TLA+ strings.                                              *)
(***************************************************************************)
EXTENDS Integers, Sequences, FiniteSets, TLC

VARIABLES
    pc,           \* the position of the run
    args,         \* main: the namespace parse_args returned
    city,         \* main's local city; the city argument of the methods
    api_key,      \* main's local api_key
    config,       \* the WeatherApiConfig given to the constructor
    retryOn,      \* the session carries the Retry adapter (lines 51-68)
    retriesLeft,  \* Retry.total of the request in flight
    attempts,     \* GET requests put on the network so far
    seen,         \* the outcomes of those requests
    last,         \* the outcome of the latest request
    data,         \* what fetch_data returned; the argument of process_data
    fetchClass,   \* the failure fetch_data logged
    df,           \* what process_data returned; the argument of create_dashboard
    parseClass,   \* the failure process_data logged
    raised,       \* the exception that left the run, "" when none
    exitCode,     \* what main returned
    procCalls,    \* calls of process_data
    dashCalls,    \* calls of create_dashboard
    show,         \* create_dashboard's show
    output_path,  \* create_dashboard's output_path
    target,       \* create_dashboard's output_path once line 208 resolved it
    saved_path,   \* create_dashboard's saved_path
    fig,          \* the figure: "none", "open", "closed"
    events,       \* savefig, show and close calls, in order, with their outcome
    ret           \* what create_dashboard returned

vars == <<pc, args, city, api_key, config, retryOn, retriesLeft, attempts, seen,
          last, data, fetchClass, df, parseClass, raised, exitCode, procCalls,
          dashCalls, show, output_path, target, saved_path, fig, events, ret>>

(***************************************************************************)
(* Bounds of the model.                                                    *)
(***************************************************************************)
MaxItems == 3       \* longest 'list' given to process_data called on its own
MaxCityLen == 3     \* longest enumerated city of create_dashboard
MaxTs == 2          \* timestamps are 1..MaxTs

(***************************************************************************)
(* Characters: str.lower, str.isalnum, str.title, str.strip.               *)
(***************************************************************************)
Lowers == <<"a","b","c","d","e","f","g","h","i","j","k","l","m","n","o","p",
            "q","r","s","t","u","v","w","x","y","z","U+00E3">>
Uppers == <<"A","B","C","D","E","F","G","H","I","J","K","L","M","N","O","P",
            "Q","R","S","T","U","V","W","X","Y","Z","U+00C3">>
Digits == {"0","1","2","3","4","5","6","7","8","9"}

IsLowerCh(c) == \E i \in 1..Len(Lowers) : Lowers[i] = c
IsUpperCh(c) == \E i \in 1..Len(Uppers) : Uppers[i] = c
\* U+0130 is the capital I with a dot: a cased letter whose lowercase form is
\* two characters, "i" and the combining dot U+0307 (which is not alphanumeric).
IsCased(c) == IsLowerCh(c) \/ IsUpperCh(c) \/ c = "U+0130"
IsAlnum(c) == IsCased(c) \/ c \in Digits

ToLower(c) == IF IsUpperCh(c)
              THEN Lowers[CHOOSE i \in 1..Len(Uppers) : Uppers[i] = c]
              ELSE c
ToUpper(c) == IF IsLowerCh(c)
              THEN Uppers[CHOOSE i \in 1..Len(Lowers) : Lowers[i] = c]
              ELSE c
\* c.lower(), a string
LowerStr(c) == IF c = "U+0130" THEN <<"i", "U+0307">> ELSE <<ToLower(c)>>

RECURSIVE LStrip(_, _)
LStrip(s, ch) == IF s # <<>> /\ Head(s) \in ch THEN LStrip(Tail(s), ch) ELSE s
RECURSIVE RStrip(_, _)
RStrip(s, ch) == IF s # <<>> /\ s[Len(s)] \in ch
                 THEN RStrip(SubSeq(s, 1, Len(s) - 1), ch) ELSE s
\* s.strip(chars)
Strip(s, ch) == RStrip(LStrip(s, ch), ch)

RECURSIVE SlugMap(_)
SlugMap(value) ==
    IF value = <<>> THEN <<>>
    ELSE (IF IsAlnum(Head(value)) THEN LowerStr(Head(value)) ELSE <<"_">>)
         \o SlugMap(Tail(value))

\* a slugify that keeps the leading and trailing underscores
SlugifyNoStrip(value) == SlugMap(value)

\* "".join(c.lower() if c.isalnum() else "_" for c in value).strip("_")
Slugify(value) == Strip(SlugMap(value), {"_"})

RECURSIVE TitleFrom(_, _)
TitleFrom(s, prevCased) ==
    IF s = <<>> THEN <<>>
    ELSE <<IF IsCased(Head(s))
           THEN (IF prevCased THEN ToLower(Head(s)) ELSE ToUpper(Head(s)))
           ELSE Head(s)>>
         \o TitleFrom(Tail(s), IsCased(Head(s)))
\* s.title()
Title(s) == TitleFrom(s, FALSE)

Whitespace == {" "}

(***************************************************************************)
(* JSON documents.  A document is [kind, list]:                            *)
(*   "None"        no document (fetch_data's None)                         *)
(*   "empty_dict"  {}                                                      *)
(*   "no_list"     an object without the key "list"                        *)
(*   "list"        an object whose "list" is the array list                *)
(*   "list_null"   an object whose "list" is null                          *)
(* An entry of the array is [dt, main, wind, weather]:                     *)
(*   dt       NoDt (no key "dt") or a timestamp                            *)
(*   main     "ok", or which of main, temp, feels_like, humidity is        *)
(*            missing or not a number                                      *)
(*   wind     "ok", "absent" (no key "wind", or no "speed" in it), "bad"   *)
(*            (wind is not an object, or its speed is not a number)        *)
(*   weather  [kind, description]: "absent" (no key "weather"), "empty"    *)
(*            (the array []), "nodesc" (a first object without             *)
(*            "description"), "desc" (a first object with description)     *)
(***************************************************************************)
NoDt == -1
NoneDoc == [kind |-> "None", list |-> <<>>]
EmptyDoc == [kind |-> "empty_dict", list |-> <<>>]
NoListDoc == [kind |-> "no_list", list |-> <<>>]
ListNullDoc == [kind |-> "list_null", list |-> <<>>]
ListDoc(l) == [kind |-> "list", list |-> l]

LightRain == <<"l","i","g","h","t"," ","r","a","i","n">>
WAbsent == [kind |-> "absent", description |-> <<>>]
WEmpty == [kind |-> "empty", description |-> <<>>]
WNoDesc == [kind |-> "nodesc", description |-> <<>>]
WDesc(d) == [kind |-> "desc", description |-> d]

Entry(dt, m, w, we) == [dt |-> dt, main |-> m, wind |-> w, weather |-> we]

\* the entries the lists are drawn from
EntryKinds ==
    { Entry(t, "ok", "ok", we) : t \in 1..MaxTs, we \in {WDesc(LightRain), WAbsent} }
    \cup { Entry(1, "ok", "absent", WDesc(LightRain)),
           Entry(MaxTs, "ok", "ok", WNoDesc),
           Entry(1, "ok", "bad", WDesc(LightRain)),
           Entry(1, "ok", "ok", WEmpty),
           Entry(NoDt, "ok", "ok", WDesc(LightRain)) }
    \cup { Entry(1, m, "ok", WDesc(LightRain)) :
             m \in {"no_main", "bad_temp", "bad_feels_like", "bad_humidity"} }

ListsUpTo(n) == UNION { [1..k -> EntryKinds] : k \in 0..n }

\* bool(data): None and {} are falsy
Truthy(d) == d.kind \notin {"None", "empty_dict"}

\* lines 120-123: pd.to_datetime(item["dt"]), float(item["main"][...])
RequiredOk(e) == e.dt # NoDt /\ e.main = "ok"
\* line 124: item.get("wind", {}).get("speed", nan) raises on a wind that is
\* not an object, float() on a speed that is not a number
WindOk(e) == e.wind # "bad"
\* line 125: item.get("weather", [{}])[0] raises IndexError on the array []
WeatherOk(e) == e.weather.kind # "empty"

\* lines 118-129: the try block builds the record, no exception
Extracts(e) == RequiredOk(e) /\ WindOk(e) /\ WeatherOk(e)

\* lines 119-126; item is the entry's place in the API list (the frame's index
\* follows it), kept to tell records apart
RecordOf(e, i) ==
    [item |-> i,
     datetime |-> e.dt,
     wind_speed |-> IF e.wind = "absent" THEN "nan" ELSE "num",
     weather_description |->
         Title(IF e.weather.kind = "desc" THEN e.weather.description ELSE <<>>)]

RECURSIVE RecordsFrom(_, _)
RecordsFrom(l, i) ==
    IF i > Len(l) THEN <<>>
    ELSE (IF Extracts(l[i]) THEN <<RecordOf(l[i], i)>> ELSE <<>>)
         \o RecordsFrom(l, i + 1)
\* lines 116-129
Records(l) == RecordsFrom(l, 1)

Orders(n) == { p \in [1..n -> 1..n] : \A i, j \in 1..n : i # j => p[i] # p[j] }
Ascending(rows) == \A i, j \in 1..Len(rows) :
                       i < j => rows[i].datetime <= rows[j].datetime

\* lines 135-136: df.sort_values("datetime") with pandas' default
\* kind="quicksort", which orders the rows and promises nothing about rows
\* with equal keys: every ascending arrangement is a possible result
SortValues(recs) ==
    { s \in { [i \in 1..Len(recs) |-> recs[p[i]]] : p \in Orders(Len(recs)) } :
        Ascending(s) }

NoDoc == [kind |-> "NotCalled", list |-> <<>>]
NoFrame == [kind |-> "NotCalled", rows |-> <<>>]
NoneFrame == [kind |-> "None", rows |-> <<>>]
Frame(rows) == [kind |-> "frame", rows |-> rows]
\* df is None or df.empty
FrameEmpty(d) == d.kind # "frame" \/ d.rows = <<>>

(***************************************************************************)
(* Values of the other variables.                                          *)
(***************************************************************************)
NoExit == -1
NoOutcome == -1
NonePath == <<"None">>
NoArgs == [city |-> <<>>, api_key |-> "", units |-> "", no_show |-> FALSE,
           output |-> NonePath]
NoConfig == [api_key |-> "", units |-> ""]

MainIdle == /\ args = NoArgs
            /\ api_key = ""
            /\ exitCode = NoExit
FetchIdle == /\ retryOn = FALSE
             /\ retriesLeft = 0
             /\ attempts = 0
             /\ seen = {}
             /\ last = NoOutcome
             /\ fetchClass = ""
ProcessIdle == /\ parseClass = ""
               /\ raised = ""
DashIdle == /\ target = NonePath
            /\ saved_path = NonePath
            /\ fig = "none"
            /\ events = <<>>
            /\ ret = NonePath

mainVars == <<args, api_key, exitCode>>
fetchVars == <<retryOn, retriesLeft, attempts, seen, last, fetchClass>>
dashVars == <<dashCalls, show, output_path, target, saved_path, fig, events, ret>>

(***************************************************************************)
(* process_data (lines 105-138).                                           *)
(***************************************************************************)
\* line 112: not data, or "list" not in data
ProcMissingList ==
    /\ pc = "process"
    /\ ~Truthy(data) \/ data.kind = "no_list"
    /\ df' = NoneFrame
    /\ parseClass' = "MissingListField"
    /\ pc' = "process_done"
    /\ UNCHANGED <<city, config, data, raised, procCalls>>
    /\ UNCHANGED <<mainVars, fetchVars, dashVars>>

\* line 117: for item in data.get("list", []) on "list": null raises
\* TypeError (None is not iterable), outside any try
ProcRaise ==
    /\ pc = "process"
    /\ data.kind = "list_null"
    /\ raised' = "TypeError"
    /\ pc' = "raised"
    /\ UNCHANGED <<city, config, data, df, parseClass, procCalls>>
    /\ UNCHANGED <<mainVars, fetchVars, dashVars>>

\* lines 116-133: no entry gave a record
ProcNoValid ==
    /\ pc = "process"
    /\ data.kind = "list"
    /\ Records(data.list) = <<>>
    /\ df' = NoneFrame
    /\ parseClass' = "NoValidRecords"
    /\ pc' = "process_done"
    /\ UNCHANGED <<city, config, data, raised, procCalls>>
    /\ UNCHANGED <<mainVars, fetchVars, dashVars>>

\* lines 116-138: the records, sorted
ProcFrame ==
    /\ pc = "process"
    /\ data.kind = "list"
    /\ Records(data.list) # <<>>
    /\ \E rows \in SortValues(Records(data.list)) : df' = Frame(rows)
    /\ pc' = "process_done"
    /\ UNCHANGED <<city, config, data, parseClass, raised, procCalls>>
    /\ UNCHANGED <<mainVars, fetchVars, dashVars>>

ProcessData == ProcMissingList \/ ProcRaise \/ ProcNoValid \/ ProcFrame

\* process_data called on its own
NormalizeInputs ==
    {NoneDoc, EmptyDoc, NoListDoc, ListNullDoc}
    \cup { ListDoc(l) : l \in ListsUpTo(MaxItems) }

InitNormalize ==
    /\ pc = "process"
    /\ data \in NormalizeInputs
    /\ df = NoFrame
    /\ procCalls = 1
    /\ city = <<>>
    /\ config = NoConfig
    /\ dashCalls = 0
    /\ show = FALSE
    /\ output_path = NonePath
    /\ MainIdle /\ FetchIdle /\ ProcessIdle /\ DashIdle

SpecNormalize == InitNormalize /\ [][ProcessData]_vars

(***************************************************************************)
(* WeatherVisualizer.__init__ and _build_session_with_retries              *)
(* (lines 33-69).                                                          *)
(***************************************************************************)
SUPPORTED_UNITS == {"metric", "imperial", "standard"}
RetryTotal == 5
StatusForcelist == {429, 500, 502, 503, 504}

\* lines 37-43.  The session is built with the Retry adapter, or, when
\* importing or constructing Retry raises (line 66), without it: requests'
\* own adapter, which retries nothing.
Ctor ==
    /\ pc = "ctor"
    /\ config.api_key # ""
    /\ config.units \in SUPPORTED_UNITS
    /\ \E r \in BOOLEAN :
          /\ retryOn' = r
          /\ retriesLeft' = IF r THEN RetryTotal ELSE 0
    /\ pc' = "fetch"
    /\ UNCHANGED <<args, city, api_key, config, attempts, seen, last, data,
                   fetchClass, df, parseClass, raised, exitCode, procCalls>>
    /\ UNCHANGED dashVars

\* lines 37-40: ValueError
CtorRaise ==
    /\ pc = "ctor"
    /\ config.api_key = "" \/ config.units \notin SUPPORTED_UNITS
    /\ raised' = "ValueError"
    /\ pc' = "raised"
    /\ UNCHANGED <<args, city, api_key, config, data, df, parseClass, exitCode,
                   procCalls>>
    /\ UNCHANGED <<fetchVars, dashVars>>

(***************************************************************************)
(* fetch_data (lines 71-103).  session.get sends the GET; the adapter      *)
(* sends it again while the Retry object allows.  An outcome of one        *)
(* request is a response status or ConnError (no response: refused,        *)
(* reset, timed out).                                                      *)
(*                                                                         *)
(* urllib3's Retry(total=5, status_forcelist=...): each failed request     *)
(* whose outcome is retried takes one from total, and the request is       *)
(* given up when total would fall below 0, that is after the first         *)
(* request and 5 more.  Giving up raises MaxRetryError, which requests     *)
(* turns into RetryError (a status of the forcelist) or ConnectionError:   *)
(* both are RequestException and neither is HTTPError, so line 101         *)
(* handles them.  A response that is not retried is returned, and          *)
(* raise_for_status raises HTTPError for a status of 400 or more.          *)
(***************************************************************************)
ConnError == 0
\* what the server is taken to answer
Outcomes == {200, 401, 403, 404, 500, 503, ConnError}

\* the adapter sends the request again after outcome o
Retried(o) == o = ConnError \/ (retryOn /\ o \in StatusForcelist)

\* lines 93-99
Classify(status) == IF status = 404 THEN "CityNotFound"
                    ELSE IF status = 401 THEN "InvalidCredentials"
                    ELSE "HttpFailure"

Send(o) == /\ attempts' = attempts + 1
           /\ seen' = seen \cup {o}
           /\ last' = o

\* what the server sends with a 200: documents of every kind, and arrays with
\* no entry, with entries that give records, with entries that give none, and
\* with both
RainAt1 == Entry(1, "ok", "ok", WDesc(LightRain))
BareAt2 == Entry(2, "ok", "absent", WAbsent)
WithoutDt == Entry(NoDt, "ok", "ok", WDesc(LightRain))
EmptyWeather == Entry(1, "ok", "ok", WEmpty)
ServerLists == { <<>>, <<RainAt1>>, <<WithoutDt>>, <<EmptyWeather>>,
                 <<BareAt2, RainAt1>>, <<WithoutDt, RainAt1>>,
                 <<BareAt2, WithoutDt, BareAt2>> }
ServerBodies ==
    {EmptyDoc, NoListDoc, ListNullDoc}
    \cup { ListDoc(l) : l \in ServerLists }

fetchFrame == <<args, city, api_key, config, retryOn, df, parseClass, raised,
                exitCode, procCalls>>

\* line 89, inside the adapter: a retried outcome, and retries are left
FetchRetry ==
    /\ pc = "fetch"
    /\ \E o \in Outcomes :
          /\ Retried(o)
          /\ retriesLeft - 1 >= 0
          /\ Send(o)
    /\ retriesLeft' = retriesLeft - 1
    /\ UNCHANGED <<pc, data, fetchClass>>
    /\ UNCHANGED <<fetchFrame, dashVars>>

\* line 89 raises RetryError or ConnectionError; lines 101-103
FetchExhausted ==
    /\ pc = "fetch"
    /\ \E o \in Outcomes :
          /\ Retried(o)
          /\ retriesLeft - 1 < 0
          /\ Send(o)
    /\ retriesLeft' = retriesLeft - 1
    /\ fetchClass' = "NetworkFailure"
    /\ data' = NoneDoc
    /\ pc' = "fetch_done"
    /\ UNCHANGED <<fetchFrame, dashVars>>

\* line 90 raises HTTPError; lines 92-100
FetchHttpError ==
    /\ pc = "fetch"
    /\ \E o \in Outcomes :
          /\ ~Retried(o)
          /\ o >= 400
          /\ Send(o)
          /\ fetchClass' = Classify(o)
    /\ data' = NoneDoc
    /\ pc' = "fetch_done"
    /\ UNCHANGED retriesLeft
    /\ UNCHANGED <<fetchFrame, dashVars>>

\* line 91: the body parses
FetchJson ==
    /\ pc = "fetch"
    /\ \E o \in Outcomes :
          /\ ~Retried(o)
          /\ o < 400
          /\ Send(o)
    /\ \E b \in ServerBodies : data' = b
    /\ pc' = "fetch_done"
    /\ UNCHANGED <<retriesLeft, fetchClass>>
    /\ UNCHANGED <<fetchFrame, dashVars>>

\* line 91: the body is no JSON; response.json() raises requests'
\* JSONDecodeError, a RequestException; lines 101-103
FetchBadJson ==
    /\ pc = "fetch"
    /\ \E o \in Outcomes :
          /\ ~Retried(o)
          /\ o < 400
          /\ Send(o)
    /\ fetchClass' = "NetworkFailure"
    /\ data' = NoneDoc
    /\ pc' = "fetch_done"
    /\ UNCHANGED retriesLeft
    /\ UNCHANGED <<fetchFrame, dashVars>>

FetchData == FetchRetry \/ FetchExhausted \/ FetchHttpError \/ FetchJson
             \/ FetchBadJson

\* the class used on its own: any config, then fetch_data(city)
NewYork == <<"N","e","w"," ","Y","o","r","k">>
InitFetch ==
    /\ pc = "ctor"
    /\ config \in [api_key : {"", "k"}, units : SUPPORTED_UNITS \cup {"kelvin"}]
    /\ city = NewYork
    /\ data = NoDoc
    /\ df = NoFrame
    /\ procCalls = 0
    /\ dashCalls = 0
    /\ show = FALSE
    /\ output_path = NonePath
    /\ MainIdle /\ FetchIdle /\ ProcessIdle /\ DashIdle

SpecFetch == InitFetch /\ [][Ctor \/ CtorRaise \/ FetchData]_vars

(***************************************************************************)
(* create_dashboard (lines 140-224).                                       *)
(***************************************************************************)
\* line 208
DefaultPath(c) == Slugify(c) \o <<"_weather_dashboard.png">>

dashFrame == <<args, city, api_key, config, data, df, parseClass, raised,
               exitCode, procCalls, dashCalls, show, output_path>>

\* lines 156-158
DashNoData ==
    /\ pc = "dash"
    /\ FrameEmpty(df)
    /\ ret' = NonePath
    /\ pc' = "dash_done"
    /\ UNCHANGED <<target, saved_path, fig, events>>
    /\ UNCHANGED <<dashFrame, fetchVars>>

\* lines 160-208: the figure and its four panels, then the path
DashDraw ==
    /\ pc = "dash"
    /\ ~FrameEmpty(df)
    /\ fig' = "open"
    /\ saved_path' = NonePath
    /\ target' = IF output_path = NonePath THEN DefaultPath(city) ELSE output_path
    /\ pc' = "dash_save"
    /\ UNCHANGED <<events, ret>>
    /\ UNCHANGED <<dashFrame, fetchVars>>

\* lines 210-212
DashSaveOk ==
    /\ pc = "dash_save"
    /\ events' = Append(events, "savefig_ok")
    /\ saved_path' = target
    /\ pc' = "dash_finally"
    /\ UNCHANGED <<target, fig, ret>>
    /\ UNCHANGED <<dashFrame, fetchVars>>

\* lines 210, 213-214: savefig raises
DashSaveFail ==
    /\ pc = "dash_save"
    /\ events' = Append(events, "savefig_fail")
    /\ pc' = "dash_finally"
    /\ UNCHANGED <<target, saved_path, fig, ret>>
    /\ UNCHANGED <<dashFrame, fetchVars>>

\* lines 216-218
DashShowOk ==
    /\ pc = "dash_finally"
    /\ show
    /\ events' = Append(events, "show_ok")
    /\ pc' = "dash_close"
    /\ UNCHANGED <<target, saved_path, fig, ret>>
    /\ UNCHANGED <<dashFrame, fetchVars>>

\* a show() whose exception leaves create_dashboard, the figure left open
DashShowFailLeaks ==
    /\ pc = "dash_finally"
    /\ show
    /\ events' = Append(events, "show_fail")
    /\ ret' = saved_path
    /\ pc' = "dash_done"
    /\ UNCHANGED <<target, saved_path, fig>>
    /\ UNCHANGED <<dashFrame, fetchVars>>

\* lines 216-221: show() raises, and the exception is dropped
DashShowFail ==
    /\ pc = "dash_finally"
    /\ show
    /\ events' = Append(events, "show_fail")
    /\ pc' = "dash_close"
    /\ UNCHANGED <<target, saved_path, fig, ret>>
    /\ UNCHANGED <<dashFrame, fetchVars>>

\* line 216: show is false
DashSkipShow ==
    /\ pc = "dash_finally"
    /\ ~show
    /\ pc' = "dash_close"
    /\ UNCHANGED <<target, saved_path, fig, events, ret>>
    /\ UNCHANGED <<dashFrame, fetchVars>>

\* lines 222-224
DashClose ==
    /\ pc = "dash_close"
    /\ fig' = "closed"
    /\ events' = Append(events, "close")
    /\ ret' = saved_path
    /\ pc' = "dash_done"
    /\ UNCHANGED <<target, saved_path>>
    /\ UNCHANGED <<dashFrame, fetchVars>>

DashRender == DashDraw \/ DashSaveOk \/ DashSaveFail \/ DashShowOk
              \/ DashShowFail \/ DashSkipShow \/ DashClose

\* create_dashboard called on its own
CityChars == {"N", "y", "1", " ", "!", "_", "U+00E3", "U+0130"}
SaoPauloBang == <<"S","U+00E3","o"," ","P","a","u","l","o","!">>
Cities == UNION { [1..k -> CityChars] : k \in 0..MaxCityLen }
          \cup {NewYork, SaoPauloBang}
OutPng == <<"out.png">>
OneRow == <<RecordOf(Entry(1, "ok", "ok", WDesc(LightRain)), 1)>>

InitRender ==
    /\ pc = "dash"
    /\ city \in Cities
    /\ show \in BOOLEAN
    /\ output_path \in {NonePath, OutPng}
    /\ df \in {NoneFrame, Frame(<<>>), Frame(OneRow)}
    /\ dashCalls = 1
    /\ data = NoDoc
    /\ procCalls = 0
    /\ config = NoConfig
    /\ MainIdle /\ FetchIdle /\ ProcessIdle /\ DashIdle

SpecRender == InitRender /\ [][DashNoData \/ DashRender]_vars

(***************************************************************************)
(* main (lines 266-299), from the namespace parse_args returned: argparse  *)
(* admits only the units of SUPPORTED_UNITS (line 257).                    *)
(***************************************************************************)
MainArgs == [city : {<<>>, NewYork}, api_key : {"", "k"}, units : SUPPORTED_UNITS,
             no_show : BOOLEAN, output : {NonePath, OutPng}]
\* what input() returns, or EOFError
EofInput == <<"EOFError">>
PromptInputs == {EofInput, <<>>, <<" ">>, <<" ", "P", " ">>}
\* OPENWEATHER_API_KEY after load_dotenv, "" when unset
EnvKeys == {"", "e"}

\* lines 240-250
ResolveApiKey(cli_key, env) == IF cli_key # "" THEN cli_key ELSE env

mainFrame == <<retryOn, retriesLeft, attempts, seen, last, fetchClass, df,
               parseClass, raised>>

\* lines 270-271: the city of the command line
MainCityFromArgs ==
    /\ pc = "main"
    /\ args.city # <<>>
    /\ city' = args.city
    /\ pc' = "main_city"
    /\ UNCHANGED <<args, api_key, config, data, exitCode, procCalls>>
    /\ UNCHANGED <<mainFrame, dashVars>>

\* lines 271-275: the prompt
MainCityFromPrompt ==
    /\ pc = "main"
    /\ args.city = <<>>
    /\ \E inp \in PromptInputs :
          city' = IF inp = EofInput THEN <<>> ELSE Strip(inp, Whitespace)
    /\ pc' = "main_city"
    /\ UNCHANGED <<args, api_key, config, data, exitCode, procCalls>>
    /\ UNCHANGED <<mainFrame, dashVars>>

\* lines 277-279
MainCityEmpty ==
    /\ pc = "main_city"
    /\ city = <<>>
    /\ exitCode' = 2
    /\ pc' = "main_returned"
    /\ UNCHANGED <<args, city, api_key, config, data, procCalls>>
    /\ UNCHANGED <<mainFrame, dashVars>>

\* line 281
MainResolveKey ==
    /\ pc = "main_city"
    /\ city # <<>>
    /\ \E env \in EnvKeys : api_key' = ResolveApiKey(args.api_key, env)
    /\ pc' = "main_key"
    /\ UNCHANGED <<args, city, config, data, exitCode, procCalls>>
    /\ UNCHANGED <<mainFrame, dashVars>>

\* lines 282-284
MainKeyMissing ==
    /\ pc = "main_key"
    /\ api_key = ""
    /\ exitCode' = 2
    /\ pc' = "main_returned"
    /\ UNCHANGED <<args, city, api_key, config, data, procCalls>>
    /\ UNCHANGED <<mainFrame, dashVars>>

\* lines 286-287: the config; Ctor is the constructor
MainConstruct ==
    /\ pc = "main_key"
    /\ api_key # ""
    /\ config' = [api_key |-> api_key, units |-> args.units]
    /\ pc' = "ctor"
    /\ UNCHANGED <<args, city, api_key, data, exitCode, procCalls>>
    /\ UNCHANGED <<mainFrame, dashVars>>

\* lines 290-291
MainFetchFailed ==
    /\ pc = "fetch_done"
    /\ ~Truthy(data)
    /\ exitCode' = 1
    /\ pc' = "main_returned"
    /\ UNCHANGED <<args, city, api_key, config, data, procCalls>>
    /\ UNCHANGED <<mainFrame, dashVars>>

\* a main that hands whatever fetch_data returned to process_data
MainCallProcessUnchecked ==
    /\ pc = "fetch_done"
    /\ procCalls' = procCalls + 1
    /\ pc' = "process"
    /\ UNCHANGED <<args, city, api_key, config, data, exitCode>>
    /\ UNCHANGED <<mainFrame, dashVars>>

\* lines 290, 293: process_data is called
MainCallProcess ==
    /\ pc = "fetch_done"
    /\ Truthy(data)
    /\ procCalls' = procCalls + 1
    /\ pc' = "process"
    /\ UNCHANGED <<args, city, api_key, config, data, exitCode>>
    /\ UNCHANGED <<mainFrame, dashVars>>

\* lines 294-296
MainNoRecords ==
    /\ pc = "process_done"
    /\ FrameEmpty(df)
    /\ exitCode' = 1
    /\ pc' = "main_returned"
    /\ UNCHANGED <<args, city, api_key, config, data, procCalls>>
    /\ UNCHANGED <<mainFrame, dashVars>>

\* lines 294, 298: create_dashboard is called
MainCallDashboard ==
    /\ pc = "process_done"
    /\ ~FrameEmpty(df)
    /\ show' = ~args.no_show
    /\ output_path' = args.output
    /\ dashCalls' = dashCalls + 1
    /\ pc' = "dash"
    /\ UNCHANGED <<args, city, api_key, config, data, exitCode, procCalls>>
    /\ UNCHANGED <<mainFrame, target, saved_path, fig, events, ret>>

\* line 299
MainReturnOk ==
    /\ pc = "dash_done"
    /\ exitCode' = 0
    /\ pc' = "main_returned"
    /\ UNCHANGED <<args, city, api_key, config, data, procCalls>>
    /\ UNCHANGED <<mainFrame, dashVars>>

Main == MainCityFromArgs \/ MainCityFromPrompt \/ MainCityEmpty
        \/ MainResolveKey \/ MainKeyMissing \/ MainConstruct
        \/ MainFetchFailed \/ MainCallProcess \/ MainNoRecords
        \/ MainCallDashboard \/ MainReturnOk

Init ==
    /\ pc = "main"
    /\ args \in MainArgs
    /\ city = <<>>
    /\ api_key = ""
    /\ exitCode = NoExit
    /\ config = NoConfig
    /\ data = NoDoc
    /\ df = NoFrame
    /\ procCalls = 0
    /\ dashCalls = 0
    /\ show = FALSE
    /\ output_path = NonePath
    /\ FetchIdle /\ ProcessIdle /\ DashIdle

Next == Main \/ Ctor \/ FetchData \/ ProcessData \/ DashRender

Spec == Init /\ [][Next]_vars

(***************************************************************************)
(* Properties.                                                             *)
(***************************************************************************)
Rows == IF df.kind = "frame" THEN df.rows ELSE <<>>
ItemsOf(rows) == { rows[k].item : k \in 1..Len(rows) }
LightRainTitled == <<"L","i","g","h","t"," ","R","a","i","n">>

\* C1: for a 'list' of N entries whose dt, main.temp, main.feels_like and
\* main.humidity extract and M entries where one of them throws, in any order,
\* process_data returns exactly N records, one per such entry, in ascending
\* order of timestamp.
C1_ExactlyValidRecordsSorted ==
    (pc = "process_done" /\ data.kind = "list") =>
        LET valid == { i \in 1..Len(data.list) : RequiredOk(data.list[i]) }
        IN /\ Len(Rows) = Cardinality(valid)
           /\ ItemsOf(Rows) = valid
           /\ Ascending(Rows)

\* C2: process_data never raises; a document without 'list' gives None with
\* MissingListField, a 'list' whose entries all fail extraction (the empty
\* list too) gives None with NoValidRecords, and every other document gives
\* a non-empty record sequence.
C2_ParseFailures ==
    /\ raised # "TypeError"
    /\ pc = "process_done" =>
         IF data.kind \in {"None", "empty_dict", "no_list"}
         THEN df = NoneFrame /\ parseClass = "MissingListField"
         ELSE IF data.kind = "list"
                 /\ \A i \in 1..Len(data.list) : ~Extracts(data.list[i])
         THEN df = NoneFrame /\ parseClass = "NoValidRecords"
         ELSE df.kind = "frame" /\ df.rows # <<>> /\ parseClass = ""

\* C3: every run of main ends with main returning 0, 1 or 2, never with an
\* exception: 2 exactly when the city or the key is empty, 1 exactly when both
\* are present and fetch_data gave no data or process_data gave no records,
\* 0 exactly when fetch and normalization both succeeded.
C3_ExitCodes ==
    /\ pc # "raised"
    /\ pc = "main_returned" =>
         /\ exitCode \in {0, 1, 2}
         /\ exitCode = 2 <=> (city = <<>> \/ api_key = "")
         /\ exitCode = 1 <=> /\ city # <<>>
                             /\ api_key # ""
                             /\ ~Truthy(data) \/ FrameEmpty(df)
         /\ exitCode = 0 <=> /\ attempts > 0
                             /\ Truthy(data)
                             /\ ~FrameEmpty(df)

\* C4: fetch_data never raises and returns the document or a classified
\* failure: 404 gives CityNotFound, 401 InvalidCredentials, any other status
\* that is not 2xx and is left when the retries are used up HttpFailure, no
\* response at all NetworkFailure.
C4_FailureClasses ==
    /\ pc = "raised" => attempts = 0
    /\ pc = "fetch_done" =>
         /\ last = 404 => fetchClass = "CityNotFound"
         /\ last = 401 => fetchClass = "InvalidCredentials"
         /\ (last >= 300 /\ last \notin {401, 404}) => fetchClass = "HttpFailure"
         /\ last = ConnError => fetchClass = "NetworkFailure"
         /\ fetchClass = "" <=> data # NoneDoc

\* C5: when every attempt is answered with a status of the forcelist,
\* fetch_data makes at most 5 attempts and then returns HttpFailure with that
\* status, not the network failure; a status outside the forcelist is never
\* retried.
C5_FiveAttemptsThenHttpFailure ==
    /\ (pc = "fetch_done" /\ seen # {} /\ seen \subseteq StatusForcelist) =>
           attempts <= 5 /\ fetchClass = "HttpFailure"
    /\ (pc = "fetch" /\ attempts > 0) => last \in StatusForcelist \cup {ConnError}

\* C6: in a run of main no request goes out unless city and key are present
\* and the units supported; process_data is called only on data fetch_data
\* returned; create_dashboard is called at most once, after process_data and
\* on a non-empty record sequence; after a fetch or parse failure there is no
\* figure and no saved file.
C6_StagesGated ==
    /\ attempts > 0 => /\ city # <<>>
                       /\ api_key # ""
                       /\ config = [api_key |-> api_key, units |-> args.units]
                       /\ config.units \in SUPPORTED_UNITS
    /\ procCalls > 0 => /\ pc \notin {"ctor", "fetch", "fetch_done"}
                        /\ attempts > 0
                        /\ fetchClass = ""
                        /\ data \notin {NoDoc, NoneDoc, EmptyDoc}
    /\ procCalls <= 1
    /\ dashCalls <= 1
    /\ dashCalls = 1 => /\ procCalls = 1
                        /\ pc \notin {"process", "process_done"}
                        /\ df.kind = "frame"
                        /\ df.rows # <<>>
    /\ (fetchClass # "" \/ parseClass # "" \/ raised # "" \/ exitCode \in {1, 2}) =>
           /\ dashCalls = 0
           /\ fig = "none"
           /\ events = <<>>
           /\ saved_path = NonePath
    /\ fig # "none" => dashCalls = 1

\* C6's case: a run that retried the request, got a document, and saved the
\* dashboard.
C6_Witness ==
    /\ pc = "main_returned"
    /\ exitCode = 0
    /\ attempts >= 2
    /\ procCalls = 1
    /\ dashCalls = 1
    /\ saved_path # NonePath

IsSave(e) == e \in {"savefig_ok", "savefig_fail"}
IsShow(e) == e \in {"show_ok", "show_fail"}

\* C7: in a call of create_dashboard that creates a figure, savefig comes
\* before show; show is called only when show is true, and whether it raises
\* changes neither the return nor the close; the call returns the path exactly
\* when savefig succeeded and None when it raised; the figure is closed
\* exactly once, last, whether the save failed, the show failed or neither.
C7_SaveShowClose ==
    /\ \A k \in 1..Len(events) :
          /\ IsShow(events[k]) => (show /\ k = 2 /\ IsSave(events[1]))
          /\ events[k] = "close" => (k = Len(events) /\ fig = "closed")
    /\ fig = "open" => pc \in {"dash_save", "dash_finally", "dash_close"}
    /\ (pc = "dash_done" /\ fig # "none") =>
          /\ fig = "closed"
          /\ Len(events) = (IF show THEN 3 ELSE 2)
          /\ IsSave(events[1])
          /\ show => IsShow(events[2])
          /\ events[Len(events)] = "close"
          /\ events[1] = "savefig_ok" => (ret = target /\ ret # NonePath)
          /\ events[1] = "savefig_fail" => ret = NonePath

\* C7's case: the save succeeded, the display failed, the figure is closed and
\* the path returned.
C7_Witness ==
    /\ pc = "dash_done"
    /\ events = <<"savefig_ok", "show_fail", "close">>
    /\ fig = "closed"
    /\ ret = target

Suffix == "_weather_dashboard.png"
\* the slug of a default path
SlugOf(path) == SubSeq(path, 1, Len(path) - 1)
PathResolved == pc # "dash" /\ fig # "none"
NewYorkSlug == <<"n","e","w","_","y","o","r","k">>
AsciiLowerAlnum == { Lowers[i] : i \in 1..26 } \cup Digits
NoEdgeUnderscore(slug) ==
    slug # <<>> => (slug[1] # "_" /\ slug[Len(slug)] # "_")
GivenPathKept == output_path # NonePath => target = output_path

\* C10 as stated: the default path is "{slug}_weather_dashboard.png", the slug
\* made only of the lowercase alphanumerics a-z, 0-9 and underscores, without
\* leading or trailing underscore; "New York" gives new_york, "Sao Paulo!"
\* (a-tilde) gives s_o_paulo; a given path is used unchanged.
C10_AsciiSlug ==
    PathResolved =>
        /\ GivenPathKept
        /\ output_path = NonePath =>
             /\ target # <<>>
             /\ target[Len(target)] = Suffix
             /\ \A k \in 1..Len(SlugOf(target)) :
                    SlugOf(target)[k] \in AsciiLowerAlnum \cup {"_"}
             /\ NoEdgeUnderscore(SlugOf(target))
             /\ city = NewYork => SlugOf(target) = NewYorkSlug
             /\ city = SaoPauloBang =>
                    SlugOf(target) = <<"s","_","o","_","p","a","u","l","o">>

\* the characters before the first and after the last alphanumeric one
RECURSIVE Lead(_)
Lead(c) == IF c = <<>> \/ IsAlnum(Head(c)) THEN 0 ELSE 1 + Lead(Tail(c))
RECURSIVE Trail(_)
Trail(c) == IF c = <<>> \/ IsAlnum(c[Len(c)]) THEN 0
            ELSE 1 + Trail(SubSeq(c, 1, Len(c) - 1))
LowerForms == UNION { { LowerStr(c)[k] : k \in 1..Len(LowerStr(c)) } :
                        c \in { x \in CityChars \cup { NewYork[i] : i \in 1..Len(NewYork) }
                                       \cup { SaoPauloBang[i] : i \in 1..Len(SaoPauloBang) } :
                                  IsAlnum(x) } }

\* C10, amended: the default path is "{slug}_weather_dashboard.png"; the slug
\* holds only underscores and the str.lower() forms of characters that
\* str.isalnum() accepts (letters and digits of any script, not only ASCII),
\* has no leading or trailing underscore, and, character by character between
\* the first and the last alphanumeric character of the city, the lowercase
\* form of an alphanumeric character and "_" for any other; "New York" gives
\* new_york and "Sao Paulo!" (a-tilde) gives sao_paulo with the a-tilde kept;
\* a given path is used unchanged.
C10_UnicodeSlug ==
    PathResolved =>
        /\ GivenPathKept
        /\ output_path = NonePath =>
             LET slug == SlugOf(target)
                 single == \A k \in 1..Len(city) : city[k] # "U+0130"
             IN /\ target # <<>>
                /\ target[Len(target)] = Suffix
                /\ \A k \in 1..Len(slug) : slug[k] \in LowerForms \cup {"_"}
                /\ NoEdgeUnderscore(slug)
                /\ (\A k \in 1..Len(city) : ~IsAlnum(city[k])) => slug = <<>>
                /\ (single /\ \E k \in 1..Len(city) : IsAlnum(city[k])) =>
                      /\ Len(slug) = Len(city) - Lead(city) - Trail(city)
                      /\ \A k \in 1..Len(slug) :
                            slug[k] = IF IsAlnum(city[k + Lead(city)])
                                      THEN ToLower(city[k + Lead(city)])
                                      ELSE "_"
                /\ city = NewYork => slug = NewYorkSlug
                /\ city = SaoPauloBang =>
                       slug = <<"s","U+00E3","o","_","p","a","u","l","o">>

\* C10's case: the default path of "Sao Paulo!", the a-tilde kept and the
\* trailing underscore stripped.
C10_Witness ==
    /\ PathResolved
    /\ city = SaoPauloBang
    /\ output_path = NonePath
    /\ target = <<"s","U+00E3","o","_","p","a","u","l","o", Suffix>>

\* C8: every entry that is valid but for its weather stays a record, its
\* description the title-cased description of the first weather object
\* ("light rain" gives "Light Rain"), or "" when the weather array is empty.
C8_DescriptionKept ==
    (pc \in {"process_done"} /\ data.kind = "list") =>
        \A i \in 1..Len(data.list) :
            LET e == data.list[i]
            IN (RequiredOk(e) /\ WindOk(e)) =>
                   \E k \in 1..Len(Rows) :
                       /\ Rows[k].item = i
                       /\ Rows[k].weather_description =
                              (IF e.weather.kind = "desc"
                               THEN (IF e.weather.description = LightRain
                                     THEN LightRainTitled
                                     ELSE Title(e.weather.description))
                               ELSE <<>>)

====
